---- MODULE Spec2Model ----
(***************************************************************************)
(* Scroll-driven camera of the 3D viewer: the POSES, applyPose,            *)
(* applyTarget, the GSAP timeline built by setupScrollTimeline, the        *)
(* keyboard handlers (O, 1, 2) and the tail of init().                     *)
(*                                                                         *)
(* Numbers.  A pose scalar is a decimal with at most six places; it is     *)
(* written here in millionths (5.980239 is 5980239).  Scroll progress is   *)
(* k / ProgressSteps for k in 0..ProgressSteps.  Every scalar held in the  *)
(* state is kept on the common denominator 1000000 * ProgressSteps, so     *)
(* that start + (end - start) * progress is computed exactly.              *)
(***************************************************************************)
EXTENDS Integers, Sequences, FiniteSets, TLC

VARIABLES
    POSES,        \* scrollTimeline.js POSES: name -> pose; a missing name is undefined
    pc,           \* position of init(): "loadModel" (awaiting loadModel), "loading"
                  \* (awaiting applyHDRI, its last await), "ready", "failed"
    cameraRig,    \* [position, rotation]
    camera,       \* [position, fov, lookAt]  (lookAt: last camera.lookAt argument)
    controls,     \* OrbitControls: [enabled, target]
    targetProxy,  \* the {x,y,z} proxy animated by the timeline
    tl,           \* the timeline / ScrollTrigger of setupScrollTimeline
    scroll,       \* raw scroll offset past the trigger start, in progress steps
    raised,       \* error thrown out of init(): "none" or its type
    event,        \* the handler that ran last
    ops,          \* the writes and calls of that handler, in order
    hist,         \* history: controls.enabled at timeline setup, the handler before
    site,         \* what the page and the server hold: [section, model, hdr, room]
    loadedModel,  \* init's loadedModel: "null" or "model"
    scene,        \* [environment, lights (name -> visible), shadowCatcher]
    renderer,     \* [toneMappingExposure], in tenths
    envMap,       \* what applyHDRI settled to: "pending", "envMap", "null", "rejected"
    lightsVisible,\* the flag of the L toggle
    status,       \* the message of the status overlay
    listening,    \* the load and resize listeners of the debounced refresh are installed
    timeout,      \* createDebouncedRefresh's timeout: id of the last timer set, 0 undefined
    timers,       \* the host's pending timers: id -> ticks left until due
    quiet,        \* ticks passed since the last call of the debounced function
    refreshes,    \* runs of refreshScrollTrigger since that call
    calls         \* calls of the debounced function so far

refreshVars == <<timeout, timers, quiet, refreshes, calls>>

appVars == <<site, loadedModel, scene, renderer, envMap, lightsVisible, status, listening>>

vars == <<POSES, pc, cameraRig, camera, controls, targetProxy, tl, scroll,
          raised, event, ops, hist, appVars,
          timeout, timers, quiet, refreshes, calls>>

----------------------------------------------------------------------------
(* Bounds *)

ProgressSteps == 4

Overscroll == 1
MaxCalls == 3

Den == ProgressSteps

ScrollRange == (0 - Overscroll)..(ProgressSteps + Overscroll)

----------------------------------------------------------------------------
(* Values *)

Vec(a, b, c) == [x |-> a, y |-> b, z |-> c]

Q(v) == v * Den

QV(v) == [x |-> Q(v.x), y |-> Q(v.y), z |-> Q(v.z)]

POSES_START ==
    [rigPos      |-> Vec(0, 0, 0),
     rigRot      |-> Vec(0, 76700, 0),
     camLocalPos |-> Vec(5980239, 1034926, 5207040),
     target      |-> Vec(-196162, 54, 208513),
     fov         |-> 30000000]

POSES_END ==
    [rigPos      |-> Vec(0, 0, 0),
     rigRot      |-> Vec(0, 76700, 0),
     camLocalPos |-> Vec(-451684, 210539, 5422854),
     target      |-> Vec(48933, 14605, 111806),
     fov         |-> 30000000]

\* a pose looked up by name: <<pose>>, or << >> when it is undefined
Pose(poses, name) == IF name \in DOMAIN poses THEN <<poses[name]>> ELSE << >>

\* the objects a handler reads and writes
Scene == [cameraRig |-> cameraRig, camera |-> camera, controls |-> controls,
          targetProxy |-> targetProxy, ops |-> ops]

SetScene(s) ==
    /\ cameraRig' = s.cameraRig
    /\ camera' = s.camera
    /\ controls' = s.controls
    /\ targetProxy' = s.targetProxy
    /\ ops' = s.ops

Log(s, entries) == [s EXCEPT !.ops = @ \o entries]

----------------------------------------------------------------------------
(* main.js: applyTarget *)

\* mutants of applyTarget: the else dropped; the mode fixed when the closure
\* was made (controls start disabled)
applyTargetBoth(s, target) ==
    LET s1 == IF s.controls.enabled
              THEN Log([s EXCEPT !.controls.target = target],
                       <<"controls.target.set", "controls.update">>)
              ELSE s
    IN  Log([s1 EXCEPT !.camera.lookAt = target], <<"camera.lookAt">>)

applyTargetCaptured(s, target) ==
    Log([s EXCEPT !.camera.lookAt = target], <<"camera.lookAt">>)

applyTarget(s, target) ==
    IF s.controls.enabled
    THEN Log([s EXCEPT !.controls.target = target],
             <<"controls.target.set", "controls.update">>)
    ELSE Log([s EXCEPT !.camera.lookAt = target], <<"camera.lookAt">>)

----------------------------------------------------------------------------
(* scrollTimeline.js: applyPose, applyStartPose, applyEndPose *)

\* mutant of applyPose: the camera offset added to the current one
applyPoseRelative(s, pose) ==
    IF pose = << >>
    THEN s
    ELSE LET p  == pose[1]
             c  == s.camera.position
             d  == QV(p.camLocalPos)
             s1 == [s EXCEPT !.cameraRig.position = QV(p.rigPos),
                             !.cameraRig.rotation = QV(p.rigRot),
                             !.camera.position =
                                 [x |-> c.x + d.x, y |-> c.y + d.y, z |-> c.z + d.z],
                             !.camera.fov = Q(p.fov),
                             !.targetProxy = QV(p.target)]
             s2 == Log(s1, <<"cameraRig.position", "cameraRig.rotation",
                             "camera.position", "camera.fov",
                             "camera.updateProjectionMatrix", "targetProxy",
                             "applyTarget">>)
         IN  applyTarget(s2, s2.targetProxy)

\* mutant of applyPose: the FOV set without updateProjectionMatrix()
applyPoseNoProjection(s, pose) ==
    IF pose = << >>
    THEN s
    ELSE LET p  == pose[1]
             s1 == [s EXCEPT !.cameraRig.position = QV(p.rigPos),
                             !.cameraRig.rotation = QV(p.rigRot),
                             !.camera.position = QV(p.camLocalPos),
                             !.camera.fov = Q(p.fov),
                             !.targetProxy = QV(p.target)]
             s2 == Log(s1, <<"cameraRig.position", "cameraRig.rotation",
                             "camera.position", "camera.fov", "targetProxy",
                             "applyTarget">>)
         IN  applyTarget(s2, s2.targetProxy)

\* mutant of applyPose: no guard, a missing pose read as empty
applyPoseUnguarded(s, pose) ==
    IF pose = << >>
    THEN applyTarget(Log(s, <<"cameraRig.position", "cameraRig.rotation",
                              "targetProxy", "applyTarget">>), s.targetProxy)
    ELSE LET p  == pose[1]
             s1 == [s EXCEPT !.cameraRig.position = QV(p.rigPos),
                             !.cameraRig.rotation = QV(p.rigRot),
                             !.camera.position = QV(p.camLocalPos),
                             !.camera.fov = Q(p.fov),
                             !.targetProxy = QV(p.target)]
             s2 == Log(s1, <<"cameraRig.position", "cameraRig.rotation",
                             "camera.position", "camera.fov",
                             "camera.updateProjectionMatrix", "targetProxy",
                             "applyTarget">>)
         IN  applyTarget(s2, s2.targetProxy)

\* gsap.set and Object.assign write the given numbers; the shipped poses
\* carry camLocalPos and fov, so both optional blocks run.
applyPose(s, pose) ==
    IF pose = << >>
    THEN s
    ELSE LET p  == pose[1]
             s1 == [s EXCEPT !.cameraRig.position = QV(p.rigPos),
                             !.cameraRig.rotation = QV(p.rigRot),
                             !.camera.position = QV(p.camLocalPos),
                             !.camera.fov = Q(p.fov),
                             !.targetProxy = QV(p.target)]
             s2 == Log(s1, <<"cameraRig.position", "cameraRig.rotation",
                             "camera.position", "camera.fov",
                             "camera.updateProjectionMatrix", "targetProxy",
                             "applyTarget">>)
         IN  applyTarget(s2, s2.targetProxy)

applyStartPose(s, poses) == applyPose(s, Pose(poses, "START"))

applyEndPose(s, poses) == applyPose(s, Pose(poses, "END"))

----------------------------------------------------------------------------
(* scrollTimeline.js: setupScrollTimeline, and the timeline it builds *)

ZeroVec == Vec(0, 0, 0)

NoTimeline == [exists |-> FALSE, tweens |-> << >>, initted |-> FALSE, progress |-> 0]

\* tl.to(target, {...END.field, ease: 'none'}, 0): the end values are copied
\* when the tween is created; the start values are not given.
Tween(target, to, onUpdate) ==
    [target |-> target, to |-> QV(to), from |-> ZeroVec, onUpdate |-> onUpdate]

\* mutant of setupScrollTimeline: the camera.position (zoom) tween left out
setupScrollTimelineNoZoom(s, poses, section) ==
    LET s1 == Log(s, <<"gsap.timeline">>)
    IN  IF ~section
        THEN [tl |-> NoTimeline, scene |-> s, raised |-> "none"]
        ELSE IF "END" \notin DOMAIN poses
        THEN [tl |-> [NoTimeline EXCEPT !.exists = TRUE],
              scene |-> Log(s1, <<"throw TypeError">>),
              raised |-> "TypeError"]
        ELSE LET e == poses["END"]
             IN  [tl |-> [exists |-> TRUE,
                          tweens |-> << Tween("cameraRig.position", e.rigPos, FALSE),
                                        Tween("cameraRig.rotation", e.rigRot, FALSE),
                                        Tween("targetProxy", e.target, TRUE) >>,
                          initted |-> FALSE,
                          progress |-> 0],
                  scene |-> s1,
                  raised |-> "none"]

\* mutant of setupScrollTimeline: the missing section not checked
setupScrollTimelineNoCheck(s, poses, section) ==
    LET s1 == Log(s, <<"gsap.timeline">>)
        e  == poses["END"]
    IN  [tl |-> [exists |-> TRUE,
                 tweens |-> << Tween("cameraRig.position", e.rigPos, FALSE),
                               Tween("cameraRig.rotation", e.rigRot, FALSE),
                               Tween("camera.position", e.camLocalPos, FALSE),
                               Tween("targetProxy", e.target, TRUE) >>,
                 initted |-> FALSE,
                 progress |-> 0],
         scene |-> s1,
         raised |-> "none"]

\* result: the timeline (NoTimeline for the null returned when no element
\* matches the selector), the scene, and the error thrown ("none" if none)
setupScrollTimeline(s, poses, section) ==
    LET s1 == Log(s, <<"gsap.timeline">>)
    IN  IF ~section
        THEN [tl |-> NoTimeline, scene |-> s, raised |-> "none"]
        ELSE IF "END" \notin DOMAIN poses
        THEN \* POSES.END.rigPos on undefined: TypeError at the first tl.to
             [tl |-> [NoTimeline EXCEPT !.exists = TRUE],
              scene |-> Log(s1, <<"throw TypeError">>),
              raised |-> "TypeError"]
        ELSE LET e == poses["END"]
             IN  [tl |-> [exists |-> TRUE,
                          tweens |-> << Tween("cameraRig.position", e.rigPos, FALSE),
                                        Tween("cameraRig.rotation", e.rigRot, FALSE),
                                        Tween("camera.position", e.camLocalPos, FALSE),
                                        Tween("targetProxy", e.target, TRUE) >>,
                          initted |-> FALSE,
                          progress |-> 0],
                  scene |-> s1,
                  raised |-> "none"]

Read(s, target) ==
    CASE target = "cameraRig.position" -> s.cameraRig.position
      [] target = "cameraRig.rotation" -> s.cameraRig.rotation
      [] target = "camera.position"    -> s.camera.position
      [] target = "targetProxy"        -> s.targetProxy

Write(s, target, v) ==
    CASE target = "cameraRig.position" -> [s EXCEPT !.cameraRig.position = v]
      [] target = "cameraRig.rotation" -> [s EXCEPT !.cameraRig.rotation = v]
      [] target = "camera.position"    -> [s EXCEPT !.camera.position = v]
      [] target = "targetProxy"        -> [s EXCEPT !.targetProxy = v]

\* ease 'none': start + (end - start) * k / ProgressSteps
Lerp(a, b, k) == a + ((b - a) * k) \div Den

LerpV(a, b, k) == [x |-> Lerp(a.x, b.x, k), y |-> Lerp(a.y, b.y, k), z |-> Lerp(a.z, b.z, k)]

\* A to-tween takes its start values from its target when it first renders.
InitTweens(s, tweens) ==
    [i \in DOMAIN tweens |-> [tweens[i] EXCEPT !.from = Read(s, tweens[i].target)]]

Reverse(seq) == [i \in DOMAIN seq |-> seq[Len(seq) + 1 - i]]

\* mutant of RenderTweens: the children after the first left to a later task
RenderTweensSplit(s, tweens, k) ==
    IF tweens = << >> THEN s
    ELSE LET tw == Head(tweens)
         IN  Log(Write(s, tw.target, LerpV(tw.from, tw.to, k)), <<tw.target>>)

\* one tween rendered at progress k: write the target, then its onUpdate
RenderTween(s, tw, k) ==
    LET s1 == Log(Write(s, tw.target, LerpV(tw.from, tw.to, k)), <<tw.target>>)
    IN  IF tw.onUpdate
        THEN applyTarget(Log(s1, <<"applyTarget">>), s1.targetProxy)
        ELSE s1

RECURSIVE RenderTweens(_, _, _)
RenderTweens(s, tweens, k) ==
    IF tweens = << >>
    THEN s
    ELSE RenderTweens(RenderTween(s, Head(tweens), k), Tail(tweens), k)

\* The timeline rendered at progress k: children in the order they were
\* added when the playhead moves forward, in reverse when it moves back.
RenderTimeline(s, t, k) ==
    LET tweens == IF t.initted THEN t.tweens ELSE InitTweens(s, t.tweens)
        order  == IF k >= t.progress THEN tweens ELSE Reverse(tweens)
    IN  [tl |-> [t EXCEPT !.tweens = tweens, !.initted = TRUE, !.progress = k],
         scene |-> RenderTweens(s, order, k)]

\* mutant of ClampProgress: the raw ratio used as it is
ClampProgressNone(raw) == raw

\* ScrollTrigger's progress for a scroll offset: clamped to [0,1]
ClampProgress(raw) == IF raw < 0 THEN 0 ELSE IF raw > ProgressSteps THEN ProgressSteps ELSE raw

----------------------------------------------------------------------------
(* lighting.js: applyHDRI, applyStudioLights, addShadowCatcher *)

Intensity == 13

ConfiguredExposure == 12

\* mutant of applyHDRI: no fallback, the failed load rejects
applyHDRINoFallback(sc, rd, st, intensity) ==
    IF st.hdr
    THEN [result |-> "envMap",
          scene |-> [sc EXCEPT !.environment = "HDRI"],
          renderer |-> [rd EXCEPT !.toneMappingExposure = intensity]]
    ELSE [result |-> "rejected", scene |-> sc, renderer |-> rd]

\* the .hdr file first, RoomEnvironment if that fails, null if both fail
applyHDRI(sc, rd, st, intensity) ==
    IF st.hdr
    THEN [result |-> "envMap",
          scene |-> [sc EXCEPT !.environment = "HDRI"],
          renderer |-> [rd EXCEPT !.toneMappingExposure = intensity]]
    ELSE IF st.room
    THEN [result |-> "envMap",
          scene |-> [sc EXCEPT !.environment = "RoomEnvironment"],
          renderer |-> [rd EXCEPT !.toneMappingExposure = intensity]]
    ELSE [result |-> "null", scene |-> sc, renderer |-> rd]

\* the delay init passes to createDebouncedRefresh, in ticks of 100 ms
DelayTicks == 3

clearTimeout(ts, id) == [i \in DOMAIN ts \ {id} |-> ts[i]]

setTimeout(ts, id, delay) ==
    [i \in DOMAIN ts \cup {id} |-> IF i = id THEN delay ELSE ts[i]]

\* mutant of debouncedRefresh: the pending timer not cancelled
debouncedRefreshNoClear(ts, pending, id) ==
    [timers |-> setTimeout(ts, id, DelayTicks), timeout |-> id]

\* the function createDebouncedRefresh returns: cancel, then start timer id
debouncedRefresh(ts, pending, id) ==
    [timers |-> setTimeout(clearTimeout(ts, pending), id, DelayTicks),
     timeout |-> id]

StudioLights == {"keyLight", "fillLight", "rimLight", "hemiLight"}

\* scene.add of four new lights; a new Object3D is visible
applyStudioLights(sc) ==
    [sc EXCEPT !.lights = [n \in (DOMAIN @) \cup StudioLights |->
                              IF n \in StudioLights THEN TRUE ELSE @[n]]]

addShadowCatcher(sc) == [sc EXCEPT !.shadowCatcher = TRUE]

----------------------------------------------------------------------------
(* State machine *)

\* after initViewer(canvas) and main.js lines 35-47
InitialScene ==
    [cameraRig   |-> [position |-> ZeroVec, rotation |-> ZeroVec],
     camera      |-> [position |-> QV(Vec(0, 2000000, 8000000)), fov |-> Q(30000000),
                      lookAt |-> ZeroVec],
     controls    |-> [enabled |-> FALSE, target |-> ZeroVec],
     targetProxy |-> ZeroVec,
     ops         |-> << >>]

InitScene ==
    /\ cameraRig = InitialScene.cameraRig
    /\ camera = InitialScene.camera
    /\ controls = InitialScene.controls
    /\ targetProxy = InitialScene.targetProxy
    /\ tl = NoTimeline
    /\ scroll = 0
    /\ raised = "none"
    /\ event = "initViewer"
    /\ ops = << >>
    /\ hist = [enabledAtSetup |-> FALSE, prev |-> "none"]

\* after initViewer and configureRenderer
InitApp ==
    /\ scene = [environment |-> "null", lights |-> << >>, shadowCatcher |-> FALSE]
    /\ renderer = [toneMappingExposure |-> ConfiguredExposure]
    /\ envMap = "pending"
    /\ lightsVisible = TRUE
    /\ listening = FALSE
    /\ timeout = 0
    /\ timers = << >>
    /\ quiet = 0
    /\ refreshes = 0
    /\ calls = 0

Shipped == [section |-> TRUE, model |-> TRUE, hdr |-> TRUE, room |-> TRUE]

\* the shipped page and assets, the model loaded, applyHDRI awaited
InitLoaded ==
    /\ InitApp
    /\ pc = "loading"
    /\ site = Shipped
    /\ loadedModel = "model"
    /\ status = "Loading HDRI..."

Init == InitScene /\ InitLoaded /\ POSES = [START |-> POSES_START, END |-> POSES_END]

\* a configuration whose END pose may be missing
InitConfig ==
    /\ InitScene
    /\ InitLoaded
    /\ POSES \in {[START |-> POSES_START, END |-> POSES_END], [START |-> POSES_START]}

\* any page and any assets, loadModel awaited
InitSite ==
    /\ InitScene
    /\ InitApp
    /\ pc = "loadModel"
    /\ site \in [section : BOOLEAN, model : BOOLEAN, hdr : BOOLEAN, room : BOOLEAN]
    /\ loadedModel = "null"
    /\ status = "Loading model..."
    /\ POSES = [START |-> POSES_START, END |-> POSES_END]

Fresh == [Scene EXCEPT !.ops = << >>]

Remember == hist' = [hist EXCEPT !.prev = event]

\* keydown 'o'
KeyO ==
    /\ controls' = [controls EXCEPT !.enabled = ~@]
    /\ event' = "keyO"
    /\ ops' = << >>
    /\ Remember
    /\ UNCHANGED refreshVars
    /\ UNCHANGED <<POSES, pc, cameraRig, camera, targetProxy, tl, scroll, raised>>
    /\ UNCHANGED appVars

\* keydown '1': window.__applyPoseStart
Key1 ==
    /\ SetScene(applyStartPose(Fresh, POSES))
    /\ event' = "key1"
    /\ Remember
    /\ UNCHANGED refreshVars
    /\ UNCHANGED <<POSES, pc, tl, scroll, raised>>
    /\ UNCHANGED appVars

\* keydown '2': window.__applyPoseEnd
Key2 ==
    /\ SetScene(applyEndPose(Fresh, POSES))
    /\ event' = "key2"
    /\ Remember
    /\ UNCHANGED refreshVars
    /\ UNCHANGED <<POSES, pc, tl, scroll, raised>>
    /\ UNCHANGED appVars

\* OrbitControls pointer input while enabled: the camera is moved about
DragPositions == {QV(Vec(0, 2000000, 8000000)), QV(Vec(7000000, 1000000, -3000000))}

OrbitDrag ==
    /\ controls.enabled
    /\ \E v \in DragPositions :
          /\ camera.position # v
          /\ camera' = [camera EXCEPT !.position = v]
    /\ event' = "drag"
    /\ ops' = << >>
    /\ Remember
    /\ UNCHANGED refreshVars
    /\ UNCHANGED <<POSES, pc, cameraRig, controls, targetProxy, tl, scroll, raised>>
    /\ UNCHANGED appVars

\* keydown 'l': the flag flipped, then written to every light of the scene
KeyL ==
    /\ lightsVisible' = ~lightsVisible
    /\ scene' = [scene EXCEPT !.lights = [n \in DOMAIN @ |-> ~lightsVisible]]
    /\ event' = "keyL"
    /\ ops' = << >>
    /\ Remember
    /\ UNCHANGED refreshVars
    /\ UNCHANGED <<POSES, pc, cameraRig, camera, controls, targetProxy, tl, scroll, raised>>
    /\ UNCHANGED <<site, loadedModel, renderer, envMap, status, listening>>

\* mutant of ModelSettles: a failed load not caught, init rejects
ModelSettlesUncaught ==
    /\ pc = "loadModel"
    /\ pc' = IF site.model THEN "loading" ELSE "failed"
    /\ raised' = IF site.model THEN "none" ELSE "Error"
    /\ loadedModel' = IF site.model THEN "model" ELSE "null"
    /\ status' = IF site.model THEN "Loading HDRI..." ELSE "Loading model..."
    /\ event' = "model"
    /\ ops' = << >>
    /\ Remember
    /\ UNCHANGED refreshVars
    /\ UNCHANGED <<POSES, cameraRig, camera, controls, targetProxy, tl, scroll>>
    /\ UNCHANGED <<site, scene, renderer, envMap, lightsVisible, listening>>

\* loadModel settles: init goes on to call applyHDRI and awaits it
ModelSettles ==
    /\ pc = "loadModel"
    /\ pc' = "loading"
    /\ loadedModel' = IF site.model THEN "model" ELSE "null"
    /\ status' = "Loading HDRI..."
    /\ event' = "model"
    /\ ops' = << >>
    /\ Remember
    /\ UNCHANGED refreshVars
    /\ UNCHANGED <<POSES, cameraRig, camera, controls, targetProxy, tl, scroll, raised>>
    /\ UNCHANGED <<site, scene, renderer, envMap, lightsVisible, listening>>

\* init from the settling of applyHDRI to its end: studio lights, shadow
\* catcher, applyStartPose, setupScrollTimeline, the refresh listeners, Ready
InitTail ==
    /\ LET h   == applyHDRI(scene, renderer, site, Intensity)
           lit == applyStudioLights(h.scene)
           sc  == IF loadedModel = "model" THEN addShadowCatcher(lit) ELSE lit
           s0  == Log(Fresh, <<"applyHDRI", "applyStudioLights">>
                             \o IF loadedModel = "model"
                                THEN <<"addShadowCatcher">> ELSE << >>)
           r   == setupScrollTimeline(applyStartPose(s0, POSES), POSES, site.section)
       IN  /\ SetScene(r.scene)
           /\ tl' = r.tl
           /\ raised' = r.raised
           /\ pc' = IF r.raised = "none" THEN "ready" ELSE "failed"
           /\ envMap' = h.result
           /\ scene' = sc
           /\ renderer' = h.renderer
           /\ listening' = (r.raised = "none")
           /\ status' = IF r.raised = "none" THEN "Ready"
                        ELSE IF h.result = "rejected" THEN "Studio lights applied"
                        ELSE "HDRI loaded"
    /\ hist' = [enabledAtSetup |-> controls.enabled, prev |-> event]
    /\ event' = "init"
    /\ UNCHANGED <<POSES, scroll, site, loadedModel, lightsVisible>>
    /\ UNCHANGED refreshVars

\* mutant of InitTimeline: the loads not awaited
InitTimelineNoAwait == pc \in {"loadModel", "loading"} /\ InitTail

\* applyHDRI settles (init awaits it, after loadModel) and init runs on
InitTimeline == pc = "loading" /\ InitTail

\* requestAnimationFrame callback of startRenderLoop
AnimationFrame ==
    /\ event' = "frame"
    /\ ops' = IF controls.enabled THEN <<"controls.update", "renderer.render">>
              ELSE <<"renderer.render">>
    /\ Remember
    /\ UNCHANGED refreshVars
    /\ UNCHANGED <<POSES, pc, cameraRig, camera, controls, targetProxy, tl, scroll, raised>>
    /\ UNCHANGED appVars

\* a scroll event: ScrollTrigger updates the scrubbed timeline when the
\* clamped progress changed
ScrollUpdate ==
    /\ tl.exists
    /\ \E raw \in ScrollRange :
          /\ raw # scroll
          /\ scroll' = raw
          /\ IF ClampProgress(raw) = tl.progress
             THEN /\ event' = "scroll"
                  /\ ops' = << >>
                  /\ UNCHANGED <<cameraRig, camera, controls, targetProxy, tl>>
             ELSE LET r == RenderTimeline(Fresh, tl, ClampProgress(raw))
                  IN  /\ SetScene(r.scene)
                      /\ tl' = r.tl
                      /\ event' = "render"
    /\ Remember
    /\ UNCHANGED refreshVars
    /\ UNCHANGED <<POSES, pc, raised>>
    /\ UNCHANGED appVars

Next == KeyO \/ Key1 \/ Key2 \/ OrbitDrag \/ InitTimeline \/ ScrollUpdate

Spec == Init /\ [][Next]_vars

SpecConfig == InitConfig /\ [][Next]_vars

\* the whole start-up on any page and assets, with the L toggle
NextSite == KeyO \/ Key1 \/ KeyL \/ ModelSettles \/ InitTimeline \/ ScrollUpdate

SpecSite == InitSite /\ [][NextSite]_vars

\* a load or resize event calls the debounced function
DebouncedRefresh ==
    /\ listening
    /\ calls < MaxCalls
    /\ LET d == debouncedRefresh(timers, timeout, calls + 1)
       IN  /\ timers' = d.timers
           /\ timeout' = d.timeout
    /\ calls' = calls + 1
    /\ quiet' = 0
    /\ refreshes' = 0
    /\ event' = "resize"
    /\ ops' = <<"clearTimeout", "setTimeout">>
    /\ Remember
    /\ UNCHANGED <<POSES, pc, cameraRig, camera, controls, targetProxy, tl, scroll, raised>>
    /\ UNCHANGED appVars

\* one tick of time passes; a timer that is due runs before more time passes
Tick ==
    /\ DOMAIN timers # {}
    /\ \A id \in DOMAIN timers : timers[id] > 0
    /\ timers' = [id \in DOMAIN timers |-> timers[id] - 1]
    /\ quiet' = IF quiet < DelayTicks THEN quiet + 1 ELSE quiet
    /\ event' = "tick"
    /\ ops' = << >>
    /\ Remember
    /\ UNCHANGED <<POSES, pc, cameraRig, camera, controls, targetProxy, tl, scroll, raised>>
    /\ UNCHANGED <<timeout, refreshes, calls>>
    /\ UNCHANGED appVars

\* a due timer runs refreshScrollTrigger; the layout being what it was, the
\* trigger's start, end and progress come out as they were
TimerFires ==
    /\ \E id \in DOMAIN timers :
          /\ timers[id] = 0
          /\ timers' = clearTimeout(timers, id)
    /\ refreshes' = refreshes + 1
    /\ event' = "timer"
    /\ ops' = <<"ScrollTrigger.refresh">>
    /\ Remember
    /\ UNCHANGED <<POSES, pc, cameraRig, camera, controls, targetProxy, tl, scroll, raised>>
    /\ UNCHANGED <<timeout, quiet, calls>>
    /\ UNCHANGED appVars

\* init's end, scrolling, and the load and resize events with their timers
NextRefresh == InitTimeline \/ ScrollUpdate \/ DebouncedRefresh \/ Tick \/ TimerFires

\* time goes on and the host runs a timer that is due
SpecRefresh ==
    Init /\ [][NextRefresh]_vars /\ WF_vars(Tick) /\ WF_vars(TimerFires)

\* the handlers of Spec with the animation frames between them
NextFrames == Next \/ AnimationFrame

SpecFrames == Init /\ [][NextFrames]_vars

----------------------------------------------------------------------------
(* The camera state the claims speak of *)

CameraState ==
    [rigPos |-> cameraRig.position, rigRot |-> cameraRig.rotation,
     camLocalPos |-> camera.position, target |-> targetProxy, fov |-> camera.fov]

CameraStateOf(s) ==
    [rigPos |-> s.cameraRig.position, rigRot |-> s.cameraRig.rotation,
     camLocalPos |-> s.camera.position, target |-> s.targetProxy, fov |-> s.camera.fov]

VecFields == {"rigPos", "rigRot", "camLocalPos", "target"}

Axes == {"x", "y", "z"}

\* a + (b - a) * k / ProgressSteps on the common denominator
Between(a, b, k) == a * Den + (b - a) * k

BetweenV(a, b, k) ==
    [x |-> Between(a.x, b.x, k), y |-> Between(a.y, b.y, k), z |-> Between(a.z, b.z, k)]

Interpolate(a, b, k) ==
    [rigPos |-> BetweenV(a.rigPos, b.rigPos, k),
     rigRot |-> BetweenV(a.rigRot, b.rigRot, k),
     camLocalPos |-> BetweenV(a.camLocalPos, b.camLocalPos, k),
     target |-> BetweenV(a.target, b.target, k),
     fov |-> Between(a.fov, b.fov, k)]

Exactly(pose) ==
    [rigPos |-> QV(pose.rigPos), rigRot |-> QV(pose.rigRot),
     camLocalPos |-> QV(pose.camLocalPos), target |-> QV(pose.target),
     fov |-> Q(pose.fov)]

\* the timeline has just rendered its tweens
Rendered == event = "render" /\ tl.tweens # << >>

----------------------------------------------------------------------------
(* C1: after the timeline renders at progress p, every scalar field of the
   camera state equals START.field + (END.field - START.field) * p. *)
C1_LinearEverywhere ==
    Rendered => CameraState = Interpolate(POSES_START, POSES_END, tl.progress)

(* C2: at progress 0 the camera state the timeline produces is POSES.START
   in every field, whatever scroll updates, 1/2 presses and O toggles came
   before. *)
C2_StartAtZero ==
    (Rendered /\ tl.progress = 0) => CameraState = Exactly(POSES_START)

(* C3: at progress 1 the camera state the timeline produces is POSES.END in
   every field. *)
C3_EndAtOne ==
    (Rendered /\ tl.progress = ProgressSteps) => CameraState = Exactly(POSES_END)

C3_Witness ==
    /\ Rendered
    /\ tl.progress = ProgressSteps
    /\ CameraState = Exactly(POSES_END)
    /\ \E i \in DOMAIN tl.tweens : tl.tweens[i].from # tl.tweens[i].to

----------------------------------------------------------------------------
(* What a handler's log says about its applyTarget call *)

IsBranchOp(op) == op \in {"controls.target.set", "controls.update", "camera.lookAt"}

IsCall(op) == op = "applyTarget"

Calls(log) == Len(SelectSeq(log, IsCall))

BranchOps(log) == SelectSeq(log, IsBranchOp)

FreeLook == <<"controls.target.set", "controls.update">>

Locked == <<"camera.lookAt">>

(* C4: every call of applyTarget takes exactly one branch: with
   controls.enabled it writes controls.target and calls controls.update()
   and leaves the camera's look-at alone; without it, it calls
   camera.lookAt and leaves controls alone.  Never both, never neither. *)
C4_OneBranch ==
    [][Calls(ops') = 1 =>
          IF controls.enabled
          THEN /\ BranchOps(ops') = FreeLook
               /\ controls'.target = targetProxy'
               /\ camera'.lookAt = camera.lookAt
          ELSE /\ BranchOps(ops') = Locked
               /\ camera'.lookAt = targetProxy'
               /\ controls' = controls]_vars

C4_Witness ==
    /\ Calls(ops) = 1
    /\ BranchOps(ops) = FreeLook
    /\ controls.target = targetProxy
    /\ camera.lookAt # targetProxy

(* C5: the mode is read from controls.enabled at every apply: whatever O
   presses came between, an apply uses the mode current at that apply, not
   the one in force at setup or at an earlier apply. *)
C5_ModeReadAtApply ==
    Calls(ops) >= 1 =>
        BranchOps(ops) = IF controls.enabled THEN FreeLook ELSE Locked

C5_Witness ==
    /\ Rendered
    /\ hist.prev = "keyO"
    /\ controls.enabled # hist.enabledAtSetup
    /\ BranchOps(ops) = IF hist.enabledAtSetup THEN Locked ELSE FreeLook

----------------------------------------------------------------------------
(* C6: the camera state after a progress update depends only on progress,
   START and END: a run that reaches progress p through any history ends in
   the state of the run that goes from init straight to p. *)
StraightRun(k) ==
    LET r0 == setupScrollTimeline(applyStartPose(InitialScene, POSES), POSES, TRUE)
        r1 == RenderTimeline(r0.scene, r0.tl, IF k = 0 THEN 1 ELSE k)
    IN  IF k = 0 THEN RenderTimeline(r1.scene, r1.tl, 0) ELSE r1

C6_HistoryFree ==
    Rendered => CameraState = CameraStateOf(StraightRun(tl.progress).scene)

(* C7: setting up the timeline with the END pose undefined raises a
   ConfigurationError, and does so before any camera state is applied. *)
C7_ConfigurationError ==
    ("END" \notin DOMAIN POSES /\ event = "init") =>
        (raised = "ConfigurationError" /\ Calls(ops) = 0)

(* C8: a scroll offset outside the range is clamped and the update goes on:
   the timeline's progress is in [0,1] in every state, and below the range
   the animated objects hold their values for 0, above it those for 1. *)
C8_ProgressClamped ==
    /\ tl.progress \in 0..ProgressSteps
    /\ tl.exists =>
          /\ scroll < 0 => tl.progress = 0
          /\ scroll > ProgressSteps => tl.progress = ProgressSteps
          /\ scroll \in 0..ProgressSteps => tl.progress = scroll
    /\ Rendered =>
          \A i \in DOMAIN tl.tweens :
             LET tw == tl.tweens[i]
             IN  /\ scroll < 0 => Read(Scene, tw.target) = tw.from
                 /\ scroll > ProgressSteps => Read(Scene, tw.target) = tw.to

C8_Witness ==
    /\ Rendered
    /\ scroll < 0
    /\ tl.progress = 0
    /\ hist.prev = "render"

(* C9: after a scroll update every scalar field of the camera state lies
   between its START and END values inclusive. *)
Min(a, b) == IF a <= b THEN a ELSE b

Max(a, b) == IF a >= b THEN a ELSE b

InRange(v, a, b) == Min(a, b) <= v /\ v <= Max(a, b)

C9_NoOvershoot ==
    Rendered =>
        /\ \A f \in VecFields : \A a \in Axes :
              InRange(CameraState[f][a], Q(POSES_START[f][a]), Q(POSES_END[f][a]))
        /\ InRange(CameraState.fov, Q(POSES_START.fov), Q(POSES_END.fov))

(* C10: applyPose is idempotent: a second call in a row with the same pose
   and the same mode leaves rig, camera, FOV, targetProxy and the look-at /
   controls target as the first call left them. *)
Observable == <<cameraRig, camera, controls, targetProxy>>

C10_Idempotent ==
    [][((event = "key1" /\ Key1) \/ (event = "key2" /\ Key2))
          => Observable' = Observable]_vars

C10_Witness ==
    /\ event = "key2"
    /\ hist.prev = "key2"
    /\ CameraState = Exactly(POSES_END)
    /\ tl.initted
    /\ tl.progress = 1

----------------------------------------------------------------------------
(* C11: after applyPose with a fully specified pose the rig position, rig
   rotation, camera local position and FOV are the pose's, the projection
   matrix has been recomputed after the FOV was set, targetProxy is the
   pose's target, and applyTarget was called exactly once, with that
   target. *)
PoseOfKey(ev) == IF ev = "key2" THEN POSES_END ELSE POSES_START

AppliedTarget == IF controls.enabled THEN controls.target ELSE camera.lookAt

Before(log, a, b) ==
    \E i \in DOMAIN log : \E j \in DOMAIN log : i < j /\ log[i] = a /\ log[j] = b

C11_PoseApplied ==
    event \in {"key1", "key2"} =>
        /\ CameraState = Exactly(PoseOfKey(event))
        /\ Before(ops, "camera.fov", "camera.updateProjectionMatrix")
        /\ Calls(ops) = 1
        /\ Before(ops, "targetProxy", "applyTarget")
        /\ AppliedTarget = QV(PoseOfKey(event).target)

C11_Witness ==
    /\ event = "key2"
    /\ hist.prev = "render"
    /\ CameraState = Exactly(POSES_END)
    /\ controls.enabled
    /\ controls.target = QV(POSES_END.target)

(* C13: applyPose with a missing pose is a silent no-op: nothing is raised,
   rig, camera, FOV and targetProxy stay as they were, and applyTarget is
   not called. *)
C13_MissingPoseNoOp ==
    [][("END" \notin DOMAIN POSES /\ Key2) =>
          /\ Observable' = Observable
          /\ raised' = raised
          /\ Calls(ops') = 0
          /\ ops' = << >>]_vars

C13_Witness ==
    /\ "END" \notin DOMAIN POSES
    /\ event = "key2"
    /\ hist.prev = "key1"
    /\ CameraState = Exactly(POSES_START)
    /\ ops = << >>

(* C19: on every render of the timeline, scrolling forward or back,
   applyTarget is invoked only after rig position, rig rotation and camera
   local position were written for that progress; applyPose keeps the same
   order. *)
C19_TargetLast ==
    Calls(ops) = 1 =>
        /\ Before(ops, "cameraRig.position", "applyTarget")
        /\ Before(ops, "cameraRig.rotation", "applyTarget")
        /\ Before(ops, "camera.position", "applyTarget")

----------------------------------------------------------------------------
(* C12: rig, camera and target are written only by synchronous callbacks of
   the one event loop (scroll update, key handler, animation frame), one
   whole callback at a time: after every callback the camera state is that
   of one whole apply, never a mix of two. *)
TweensRendered ==
    \A i \in DOMAIN tl.tweens :
        Read(Scene, tl.tweens[i].target)
            = LerpV(tl.tweens[i].from, tl.tweens[i].to, tl.progress)

C12_WholeApplies ==
    [][/\ event' \in {"key1", "key2"} =>
             /\ CameraState' = Exactly(PoseOfKey(event'))
             /\ AppliedTarget' = targetProxy'
       /\ event' = "init" =>
             /\ CameraState' = Exactly(POSES_START)
             /\ AppliedTarget' = targetProxy'
       /\ event' = "render" => (TweensRendered' /\ AppliedTarget' = targetProxy')
       /\ event' \in {"frame", "keyO", "scroll"} =>
             UNCHANGED <<cameraRig, camera, targetProxy, controls.target>>
       /\ event' = "drag" =>
             UNCHANGED <<cameraRig, camera.fov, camera.lookAt, targetProxy, controls>>]_vars

C12_Witness ==
    /\ event = "render"
    /\ hist.prev = "frame"
    /\ controls.enabled
    /\ tl.progress = 1
    /\ TweensRendered
    /\ controls.target = targetProxy

(* C14: the debounced refresh keeps at most one timer pending; a call
   cancels the pending timer and starts a new one, so refreshScrollTrigger
   runs only after the whole delay has passed without a call, once per such
   quiet period, and always runs in the end after the last call. *)
C14_Debounced ==
    /\ [](/\ Cardinality(DOMAIN timers) <= 1
          /\ DOMAIN timers \subseteq {timeout}
          /\ refreshes <= 1
          /\ refreshes = 1 => DOMAIN timers = {})
    /\ [][refreshes' > refreshes => (quiet = DelayTicks /\ refreshes' = 1)]_vars
    /\ (calls > 0) ~> (refreshes = 1)

C14_Witness ==
    /\ event = "timer"
    /\ calls >= 2
    /\ timeout = calls
    /\ refreshes = 1
    /\ quiet = DelayTicks
    /\ DOMAIN timers = {}

(* C15: init applies the START pose only after the model load and the
   environment load have both settled and the studio lights were added, and
   creates the timeline only after that; no scroll-driven camera update
   happens before. *)
C15_StartAfterLoads ==
    [][/\ event' = "init" =>
             /\ pc = "loading"
             /\ status = "Loading HDRI..."
             /\ envMap' # "pending"
             /\ StudioLights \subseteq DOMAIN scene'.lights
             /\ Before(ops', "applyHDRI", "applyStudioLights")
             /\ Before(ops', "applyStudioLights", "cameraRig.position")
             /\ tl'.exists => Before(ops', "applyTarget", "gsap.timeline")
       /\ tl'.exists => pc' = "ready"
       /\ event' \in {"render", "scroll"} => pc = "ready"]_vars

C15_Witness ==
    /\ event = "render"
    /\ pc = "ready"
    /\ ~site.model
    /\ ~site.hdr
    /\ envMap = "envMap"
    /\ StudioLights \subseteq DOMAIN scene.lights

(* C16: with the canvas present and both loads settling, init runs to its
   end and the last status is 'Ready', for every outcome of the model load
   and of the HDRI load; a failed model load only leaves out the shadow
   catcher. *)
C16_InitCompletes ==
    /\ pc # "failed"
    /\ raised = "none"
    /\ pc \in {"loadModel", "loading"} => ENABLED (ModelSettles \/ InitTimeline)
    /\ pc = "ready" =>
          /\ status = "Ready"
          /\ listening
          /\ tl.exists = site.section
          /\ scene.shadowCatcher = site.model
          /\ StudioLights \subseteq DOMAIN scene.lights
          /\ event = "init" => CameraState = Exactly(POSES_START)

C16_Witness ==
    /\ pc = "ready"
    /\ status = "Ready"
    /\ ~site.model
    /\ ~site.hdr
    /\ ~site.room
    /\ ~scene.shadowCatcher
    /\ tl.exists
    /\ listening

(* C17: applyHDRI never rejects: a failed HDRI load falls back to
   RoomEnvironment, and if that fails too it resolves to null with
   scene.environment unchanged; it resolves to an environment map exactly
   when one of the two succeeded, and then scene.environment is set and the
   exposure is the requested intensity. *)
C17_HDRIFallback ==
    /\ envMap # "rejected"
    /\ (envMap = "pending") = (pc \in {"loadModel", "loading"})
    /\ envMap # "pending" => (envMap = "envMap") = (site.hdr \/ site.room)
    /\ envMap = "envMap" =>
          /\ scene.environment = IF site.hdr THEN "HDRI" ELSE "RoomEnvironment"
          /\ renderer.toneMappingExposure = Intensity
    /\ envMap = "null" =>
          /\ scene.environment = "null"
          /\ renderer.toneMappingExposure = ConfiguredExposure

C17_Witness ==
    /\ envMap = "envMap"
    /\ ~site.hdr
    /\ scene.environment = "RoomEnvironment"
    /\ renderer.toneMappingExposure = Intensity

(* C18: setupScrollTimeline returns null when no element matches the
   selector, creating no timeline or scroll trigger and leaving rig, camera
   and targetProxy as they were; with the element it returns a timeline. *)
C18_NullWithoutSection ==
    pc = "ready" =>
        IF site.section
        THEN tl.exists /\ Len(tl.tweens) = 4
        ELSE /\ tl = NoTimeline
             /\ scroll = 0
             /\ event = "init" =>
                   /\ Calls(ops) = 1
                   /\ ~ \E i \in DOMAIN ops : ops[i] = "gsap.timeline"
                   /\ CameraState = Exactly(POSES_START)
                   /\ AppliedTarget = targetProxy

C18_Witness ==
    /\ pc = "ready"
    /\ ~site.section
    /\ tl = NoTimeline
    /\ event = "init"
    /\ CameraState = Exactly(POSES_START)

(* C20: whatever L presses come between the steps of the start-up, every
   light that is a child of the scene has visible equal to the lightsVisible
   flag of the toggle. *)
C20_LightsFollowFlag ==
    \A n \in DOMAIN scene.lights : scene.lights[n] = lightsVisible

====
